---- MODULE Spec2Model ----
(***************************************************************************)
(* Survey Sensei backend: the survey session state machine.                *)
(*                                                                         *)
(* The model follows src/backend/agents/survey_and_review_agent.py (the    *)
(* SurveyAndReviewAgent public API and its node functions),                *)
(* src/backend/main.py (the FastAPI handlers that wrap the agent) and      *)
(* src/backend/database/supabase_client.py (the survey_sessions row and    *)
(* the reviews table).  One survey session row is modelled; the language   *)
(* model behind the question and review suppliers is the environment: its  *)
(* answers are drawn from small sets of batches.                           *)
(*                                                                         *)
(* Python dictionaries are records; a key that may be absent is tracked in *)
(* a "keys" field (session_context) or by a none-marker (generated_reviews,*)
(* integer fields use 0 for None).  Timestamps, identifiers and the two    *)
(* context blobs never influence control flow and are left out, as is the  *)
(* write-only "survey" question log that no operation reads back.          *)
(***************************************************************************)
EXTENDS Integers, Sequences, FiniteSets, TLC

VARIABLES
    survey_sessions,   \* the row of table survey_sessions for the session
    reviews,           \* rows of table reviews inserted for the session
    result,            \* the last public call: operation, arguments, outcome
    loaded,            \* per in-flight submit_answer: the row it read
    returned           \* per client: what its last submit_answer returned

vars == <<survey_sessions, reviews, result, loaded, returned>>

(***************************************************************************)
(* Program constants (src/backend/config.py)                               *)
(***************************************************************************)
max_survey_questions == 10
min_survey_questions == 5

(***************************************************************************)
(* Bounds of the model                                                     *)
(***************************************************************************)
MaxQuestions == 12      \* longest all_questions list explored
MaxInitial == 3         \* questions the model returns for the initial batch
MaxBatch == 2           \* questions the model returns for a follow-up batch
MaxReviewOptions == 2   \* review options the survey agent's model returns
MaxEdits == 2           \* edited answers kept in one ledger
MaxDup == 1             \* repeated question texts in one question list
RaceDepth == 2          \* answers already stored when a racing call loads
MaxSavedReviews == 2    \* rows inserted into the reviews table
MaxTurns == 12          \* largest total_questions_asked given to the routing
MaxModelReviews == 4    \* reviews the model of agent 4 returns

Clients == {1, 2}

(***************************************************************************)
(* Data                                                                    *)
(***************************************************************************)
NoneStr == "None"

text(n) == "q" \o ToString(n)

\* SurveyQuestion.dict(): question_text and options
SurveyQuestion(t, opts) == [question_text |-> t, options |-> opts]

NoQuestion == SurveyQuestion(NoneStr, <<>>)

\* generated_reviews: None or a list of ReviewOption dicts
NoReviews == [is_none |-> TRUE, items |-> <<>>]

SomeReviews(l) == [is_none |-> FALSE, items |-> l]

\* ReviewOption of the survey agent: review_text, rating, sentiment, tone
\* (no review_stars key: 0)
ReviewOption(i) ==
    [review_text |-> "review" \o ToString(i), rating |-> 6 - i,
     review_stars |-> 0, tone |-> "casual"]

\* SurveyState as start_survey builds it
initial_state ==
    [all_questions |-> <<>>,
     current_question_index |-> 0,
     answers |-> <<>>,
     total_questions_asked |-> 0,
     conversation_history |-> <<>>,
     generated_reviews |-> NoReviews,
     next_action |-> "fetch_contexts"]

\* session_context.get("current_state", {}) when the key is absent: {}
EmptyState == [initial_state EXCEPT !.next_action = NoneStr]

\* the session_context dictionary; keys lists the keys that are present
EmptyContext ==
    [keys |-> {},
     form_data |-> NoneStr,
     current_state |-> EmptyState,
     conversation_history |-> <<>>,
     review_id |-> 0,
     completed |-> FALSE]

NoSession ==
    [exists |-> FALSE, session_context |-> EmptyContext, is_completed |-> FALSE]

\* dict.update(metadata): the keys of md replace those of ctx
DictUpdate(ctx, md) ==
    [keys |-> ctx.keys \cup md.keys,
     form_data |-> IF "form_data" \in md.keys THEN md.form_data ELSE ctx.form_data,
     current_state |-> IF "current_state" \in md.keys
                       THEN md.current_state ELSE ctx.current_state,
     conversation_history |-> IF "conversation_history" \in md.keys
                              THEN md.conversation_history
                              ELSE ctx.conversation_history,
     review_id |-> IF "review_id" \in md.keys THEN md.review_id ELSE ctx.review_id,
     completed |-> IF "completed" \in md.keys THEN md.completed ELSE ctx.completed]

\* metadata={"current_state": s}
MetaState(s) ==
    [EmptyContext EXCEPT !.keys = {"current_state"}, !.current_state = s]

\* metadata={"form_data": form_data, "current_state": s}
MetaStart(s) ==
    [EmptyContext EXCEPT !.keys = {"form_data", "current_state"},
                         !.form_data = "form", !.current_state = s]

(***************************************************************************)
(* SupabaseDB                                                              *)
(***************************************************************************)
\* create_survey_session: inserts the row with session_context = metadata
create_survey_session ==
    [exists |-> TRUE,
     session_context |-> [EmptyContext EXCEPT !.keys = {"form_data"},
                                              !.form_data = "form"],
     is_completed |-> FALSE]

\* update_survey_session: re-reads the row, merges metadata into its
\* session_context, sets conversation_history and is_completed; updates no
\* row when the session does not exist
update_survey_session(row, conversation_history, state, metadata) ==
    IF ~row.exists THEN row
    ELSE [exists |-> TRUE,
          session_context |->
              [DictUpdate(row.session_context, metadata)
                  EXCEPT !.keys = @ \cup {"conversation_history"},
                         !.conversation_history = conversation_history],
          is_completed |-> (state = "completed")]

(***************************************************************************)
(* The suppliers (language model calls) as seen by the agent               *)
(***************************************************************************)
\* what the model may return for one question
QuestionKinds == {"ok", "dup", "one_option", "no_options"}

Shapes(n, kinds) == UNION {[1..k -> kinds] : k \in 0..n}

Survives(kind) == kind \in {"ok", "dup"}

CountSurvivors(shape, i) == Cardinality({j \in 1..i : Survives(shape[j])})

\* the questionnaire.questions the model returns for a shape: an "ok"
\* question has a text not used before, a "dup" question repeats the text of
\* the first question, the other two lack options
RawBatch(existing, shape) ==
    [i \in 1..Len(shape) |->
        SurveyQuestion(
            IF shape[i] = "dup"
            THEN (IF existing = <<>> THEN text(1) ELSE existing[1].question_text)
            ELSE text(Len(existing) + CountSurvivors(shape, i)),
            CASE shape[i] = "no_options" -> <<>>
              [] shape[i] = "one_option" -> <<"o1">>
              [] OTHER -> <<"o1", "o2">>)]

\* a supplier call either raises (ok = FALSE) or returns a list
SupplierFailure == [ok |-> FALSE, items |-> <<>>]

SupplierReturn(l) == [ok |-> TRUE, items |-> l]

\* review options returned by the survey agent's own review chain
ReviewBatch(n) == [i \in 1..n |-> ReviewOption(i)]

(***************************************************************************)
(* Node functions of SurveyAndReviewAgent; each returns the merged state   *)
(***************************************************************************)
\* faulty variant of HasEnoughOptions: a single option is enough
HasEnoughOptions_accepting_one(q) == ~(q.options = <<>> \/ Len(q.options) < 1)

\* "Ensure question has at least 2 options"
HasEnoughOptions(q) == ~(q.options = <<>> \/ Len(q.options) < 2)

ValidQuestions(qs) == SelectSeq(qs, HasEnoughOptions)

SystemMessage == [role |-> "system", content |-> "contexts"]

\* _fetch_contexts: the reducer operator.add appends the system message
_fetch_contexts(state) ==
    [state EXCEPT !.conversation_history = @ \o <<SystemMessage>>]

\* _generate_initial_questions, given the questions the model returned
_generate_initial_questions(state, questions) ==
    [state EXCEPT !.all_questions = ValidQuestions(questions),
                  !.current_question_index = 0,
                  !.total_questions_asked = 0,
                  !.next_action = "ask_question"]

\* _present_question
_present_question(state) ==
    IF state.current_question_index >= Len(state.all_questions)
    THEN [state EXCEPT !.next_action = "generate_review"]
    ELSE [state EXCEPT !.total_questions_asked = @ + 1,
                       !.next_action = "wait_for_answer"]

\* ", ".join(answer) if isinstance(answer, list) else answer
RECURSIVE Join(_)
Join(items) ==
    IF items = <<>> THEN ""
    ELSE IF Len(items) = 1 THEN items[1]
    ELSE items[1] \o ", " \o Join(Tail(items))

\* faulty variant of answer_text: of a list only the first option is kept
answer_text_first_option(answer) == answer.items[1]

answer_text(answer) == IF answer.is_list THEN Join(answer.items) ELSE answer.items[1]

StrAnswer(s) == [is_list |-> FALSE, items |-> <<s>>]

\* a multi-select answer: a list of the options chosen
ListAnswer(options) == [is_list |-> TRUE, items |-> options]

AnswerRecord(index, question, answer) ==
    [question_index |-> index, question |-> question, answer |-> answer]

\* faulty variant of _process_answer: the record carries the index of the
\* question after the one that was answered
_process_answer_recording_next_index(state, answer) ==
    LET current_q == state.all_questions[state.current_question_index + 1]
        rec == AnswerRecord(state.current_question_index + 1,
                            current_q.question_text, answer_text(answer))
    IN [state EXCEPT
           !.answers = Append(@, rec),
           !.current_question_index = @ + 1,
           !.conversation_history =
               @ \o <<[role |-> "assistant", content |-> current_q.question_text],
                      [role |-> "user", content |-> answer_text(answer)]>>]

\* _process_answer (the caller has checked that the index is in range)
_process_answer(state, answer) ==
    LET current_q == state.all_questions[state.current_question_index + 1]
        rec == AnswerRecord(state.current_question_index,
                            current_q.question_text, answer_text(answer))
    IN [state EXCEPT
           !.answers = Append(@, rec),
           !.current_question_index = @ + 1,
           !.conversation_history =
               @ \o <<[role |-> "assistant", content |-> current_q.question_text],
                      [role |-> "user", content |-> answer_text(answer)]>>]

\* faulty variant of _generate_followup_questions: the new batch replaces the
\* question list instead of extending it
_generate_followup_questions_replacing(state, questions) ==
    IF state.total_questions_asked >= max_survey_questions
    THEN [state EXCEPT !.next_action = "complete_survey"]
    ELSE [state EXCEPT !.all_questions = ValidQuestions(questions),
                       !.next_action = "ask_question"]

\* _generate_followup_questions, given the questions the model returned
_generate_followup_questions(state, questions) ==
    IF state.total_questions_asked >= max_survey_questions
    THEN [state EXCEPT !.next_action = "complete_survey"]
    ELSE [state EXCEPT !.all_questions = @ \o ValidQuestions(questions),
                       !.next_action = "ask_question"]

\* num_followup = min(2, max_survey_questions - total_questions_asked)
num_followup(state) ==
    IF 2 <= max_survey_questions - state.total_questions_asked
    THEN 2 ELSE max_survey_questions - state.total_questions_asked

\* _generate_review_options, given the options the model returned
_generate_review_options(state, options) ==
    [state EXCEPT !.generated_reviews = SomeReviews(options),
                  !.next_action = "present_reviews"]

\* faulty variant of _route_after_answer: the follow-up cadence is looked at
\* before the cap
_route_after_answer_cadence_first(state) ==
    LET total_asked == state.total_questions_asked
        total_available == Len(state.all_questions)
    IN IF total_asked >= min_survey_questions /\ total_asked % 3 = 0
       THEN "generate_followup"
       ELSE IF total_asked >= max_survey_questions THEN "complete_survey"
       ELSE IF total_asked >= min_survey_questions
               /\ state.current_question_index >= total_available
            THEN "complete_survey"
       ELSE IF state.current_question_index < total_available THEN "ask_next"
       ELSE "generate_followup"

\* _route_after_answer
_route_after_answer(state) ==
    LET total_asked == state.total_questions_asked
        total_available == Len(state.all_questions)
    IN IF total_asked >= max_survey_questions THEN "complete_survey"
       ELSE IF total_asked >= min_survey_questions
               /\ total_asked % 3 = 0 /\ total_asked < max_survey_questions
            THEN "generate_followup"
       ELSE IF total_asked >= min_survey_questions
               /\ state.current_question_index >= total_available
            THEN "complete_survey"
       ELSE IF state.current_question_index < total_available THEN "ask_next"
       ELSE "generate_followup"

(***************************************************************************)
(* Public API of SurveyAndReviewAgent.  Each operation yields              *)
(*   exc: the exception it raised ("none" when it returned),               *)
(*   row: the survey_sessions row it leaves in the database,               *)
(*   ret: the dictionary it returned.                                      *)
(* session is the row the operation read at its start, row the row in the  *)
(* database when it writes (the same row unless another call interleaves). *)
(***************************************************************************)
NoRet ==
    [status |-> NoneStr, question |-> NoQuestion, question_number |-> 0,
     total_questions |-> 0, review_options |-> NoReviews]

Raise(e, row) == [exc |-> e, row |-> row, ret |-> NoRet]

Return(row, ret) == [exc |-> "none", row |-> row, ret |-> ret]

\* faulty variant of QuestionRet: reports the 0-indexed cursor as the
\* question number
QuestionRet_zero_based(status, state) ==
    [NoRet EXCEPT
        !.status = status,
        !.question = state.all_questions[state.current_question_index + 1],
        !.question_number = state.current_question_index,
        !.total_questions = Len(state.all_questions)]

\* {"session_id", "question", "question_number", "total_questions"}
QuestionRet(status, state) ==
    [NoRet EXCEPT
        !.status = status,
        !.question = state.all_questions[state.current_question_index + 1],
        !.question_number = state.current_question_index + 1,
        !.total_questions = Len(state.all_questions)]

HasState(session) == "current_state" \in session.session_context.keys

\* start_survey: the session row is created first, then the graph runs
\* fetch_contexts -> generate_initial_questions -> present_question
start_survey(contexts_ok, initial) ==
    LET created == create_survey_session
        fetched == _fetch_contexts(initial_state)
        generated == _generate_initial_questions(fetched, initial.items)
        presented == _present_question(generated)
    IN IF ~contexts_ok THEN Raise("ContextError", created)
       ELSE IF ~initial.ok THEN Raise("SupplierError", created)
       ELSE IF generated.all_questions = <<>>
            THEN Raise("No valid questions generated", created)
       ELSE Return(update_survey_session(created, presented.conversation_history,
                                         "active", MetaStart(presented)),
                   QuestionRet(NoneStr, presented))

\* faulty variant of complete_survey: the answered ledger is stored as
\* completed before the review options are generated
complete_survey_storing_first(row, updated_state, review) ==
    IF ~review.ok
    THEN Raise("SupplierError",
               update_survey_session(row, updated_state.conversation_history,
                                     "completed", MetaState(updated_state)))
    ELSE LET final_state == _generate_review_options(updated_state, review.items)
         IN Return(update_survey_session(row, final_state.conversation_history,
                                         "completed", MetaState(final_state)),
                   [NoRet EXCEPT !.status = "completed",
                                 !.review_options = final_state.generated_reviews])

\* submit_answer, route "complete_survey": the review options are generated
\* first, then the final state is stored as completed
complete_survey(row, updated_state, review) ==
    IF ~review.ok THEN Raise("SupplierError", row)
    ELSE LET final_state == _generate_review_options(updated_state, review.items)
         IN Return(update_survey_session(row, final_state.conversation_history,
                                         "completed", MetaState(final_state)),
                   [NoRet EXCEPT !.status = "completed",
                                 !.review_options = final_state.generated_reviews])

\* submit_answer
submit_answer(session, row, answer, followup, review) ==
    IF ~session.exists THEN Raise("Session not found", row)
    ELSE IF ~HasState(session) THEN Raise("KeyError", row)
    ELSE
    LET current_state == session.session_context.current_state
    IN IF current_state.current_question_index >= Len(current_state.all_questions)
       THEN Raise("IndexError", row)
       ELSE
       LET updated_state == _process_answer(current_state, answer)
           next_route == _route_after_answer(updated_state)
       IN IF next_route = "complete_survey"
          THEN complete_survey(row, updated_state, review)
          ELSE IF next_route = "generate_followup"
          THEN IF ~followup.ok THEN Raise("SupplierError", row)
               ELSE LET presented == _present_question(
                            _generate_followup_questions(updated_state,
                                                         followup.items))
                        saved == update_survey_session(row,
                                     presented.conversation_history, "active",
                                     MetaState(presented))
                    IN IF presented.current_question_index
                              >= Len(presented.all_questions)
                       THEN Raise("IndexError", saved)
                       ELSE Return(saved, QuestionRet(NoneStr, presented))
          ELSE Return(update_survey_session(row,
                          updated_state.conversation_history, "active",
                          MetaState(updated_state)),
                      QuestionRet(NoneStr, updated_state))

\* the conversation edit_answer rebuilds from the kept answers
RECURSIVE branched_conversation(_)
branched_conversation(answers) ==
    IF answers = <<>> THEN <<>>
    ELSE <<[role |-> "assistant", content |-> Head(answers).question],
           [role |-> "user", content |-> Head(answers).answer]>>
         \o branched_conversation(Tail(answers))

\* faulty variant of invalid_question_number: accepts the index one past the
\* last answer
invalid_question_number_off_by_one(question_index, answers) ==
    question_index < 0 \/ question_index > Len(answers)

\* edit_answer's check of the 0-indexed question index
invalid_question_number(question_index, answers) ==
    question_index < 0 \/ question_index >= Len(answers)

\* faulty variant of answers_before: keeps the answer that is being edited
answers_before_keeping_edited(answers, question_index) ==
    SubSeq(answers, 1, question_index + 1)

\* current_state["answers"][:question_index]
answers_before(answers, question_index) == SubSeq(answers, 1, question_index)

\* faulty variant of branched_state: the questions after the edited one are
\* dropped, to be generated again
branched_state_truncating(current_state, question_index, branched_answers) ==
    [current_state EXCEPT
        !.all_questions = SubSeq(@, 1, question_index + 1),
        !.answers = branched_answers,
        !.conversation_history = branched_conversation(branched_answers),
        !.current_question_index = question_index + 1,
        !.total_questions_asked = Len(branched_answers),
        !.generated_reviews = NoReviews]

\* edit_answer's branched state: {**current_state, ...}, all_questions kept
branched_state(current_state, question_index, branched_answers) ==
    [current_state EXCEPT
        !.answers = branched_answers,
        !.conversation_history = branched_conversation(branched_answers),
        !.current_question_index = question_index + 1,
        !.total_questions_asked = Len(branched_answers),
        !.generated_reviews = NoReviews]

\* edit_answer
edit_answer(session, row, question_number, new_answer) ==
    IF ~session.exists THEN Raise("Session not found", row)
    ELSE
    LET current_state == IF HasState(session)
                         THEN session.session_context.current_state
                         ELSE EmptyState
        question_index == question_number - 1
    IN IF invalid_question_number(question_index, current_state.answers)
       THEN Raise("Invalid question number", row)
       ELSE IF question_index >= Len(current_state.all_questions)
       THEN Raise("IndexError", row)
       ELSE
       LET current_q == current_state.all_questions[question_index + 1]
           branched_answers ==
               Append(answers_before(current_state.answers, question_index),
                      AnswerRecord(question_index, current_q.question_text,
                                   new_answer))
           branched == branched_state(current_state, question_index,
                                      branched_answers)
           saved == update_survey_session(row,
                        branched.conversation_history, "active",
                        MetaState(branched))
       IN IF branched.current_question_index >= Len(branched.all_questions)
          THEN Return(saved, [NoRet EXCEPT !.status = "completed"])
          ELSE Return(saved, QuestionRet("continue", branched))

(***************************************************************************)
(* ReviewGenAgent (agent 4), as the /api/reviews/generate handler uses it  *)
(***************************************************************************)
_get_star_ratings(sentiment_band) ==
    IF sentiment_band = "good" THEN <<5, 4>>
    ELSE IF sentiment_band = "okay" THEN <<4, 3, 2>>
    ELSE <<2, 1>>

\* a review as the model wrote it: its own star rating, no "rating" key
ModelReview(i) ==
    [review_text |-> "stars" \o ToString(i), rating |-> 0,
     review_stars |-> 3, tone |-> "balanced"]

\* a review as the model wrote it, with the star rating the model chose
ModelReviewWith(i, stars) == [ModelReview(i) EXCEPT !.review_stars = stars]

\* ReviewGenAgent._generate_review_options once the model has answered:
\* every review gets star_ratings[i], which raises IndexError when the model
\* wrote more reviews than the band has ratings; the band reported is the
\* analysed one
generate_review_options(sentiment_band, model_reviews) ==
    LET star_ratings == _get_star_ratings(sentiment_band)
    IN IF Len(model_reviews) > Len(star_ratings)
       THEN [exc |-> "IndexError", reviews |-> <<>>, sentiment_band |-> NoneStr]
       ELSE [exc |-> "none",
             reviews |-> [i \in 1..Len(model_reviews) |->
                 [model_reviews[i] EXCEPT !.review_stars = star_ratings[i]]],
             sentiment_band |-> sentiment_band]

\* generate_reviews when the model returned n reviews for the analysed band
generate_reviews(sentiment_band, n) ==
    generate_review_options(sentiment_band, [i \in 1..n |-> ModelReview(i)])

(***************************************************************************)
(* ProductContextAgent (agent 1) and CustomerContextAgent (agent 2).  The  *)
(* database lookups are booleans (found or not); llm is what the language  *)
(* model call did: it raised, it answered with text that does not parse,   *)
(* or it answered with a context that names some context_type.  Only the   *)
(* context_type of the returned context is followed.                       *)
(***************************************************************************)
LlmRaises == [kind |-> "raises", context_type |-> NoneStr]

LlmUnparseable == [kind |-> "unparseable", context_type |-> NoneStr]

LlmParsed(t) == [kind |-> "parsed", context_type |-> t]

ContextRaise(e) == [exc |-> e, context_type |-> NoneStr]

ContextReturn(t) == [exc |-> "none", context_type |-> t]

\* the try/except around json.loads and the pydantic constructor: the parsed
\* context, or the fallback context of the branch
_parse_llm_response(llm, fallback_context_type) ==
    IF llm.kind = "parsed" THEN llm.context_type ELSE fallback_context_type

\* the tail of every branch: context.context_type = <the branch's type>
SetContextType(parsed_context_type, branch_context_type) == branch_context_type

\* ProductContextAgent._generate_generic_context
_generate_generic_context(llm) ==
    IF llm.kind = "raises" THEN ContextRaise("SupplierError")
    ELSE ContextReturn(SetContextType(_parse_llm_response(llm, "generic"),
                                      "generic"))

\* faulty variant of _generate_from_direct_reviews: the context_type the
\* model wrote is kept
_generate_from_direct_reviews_keeping_type(reviews_found, llm) ==
    IF ~reviews_found THEN _generate_generic_context(llm)
    ELSE IF llm.kind = "raises" THEN ContextRaise("SupplierError")
    ELSE ContextReturn(_parse_llm_response(llm, "direct_reviews"))

\* ProductContextAgent._generate_from_direct_reviews
_generate_from_direct_reviews(reviews_found, llm) ==
    IF ~reviews_found THEN _generate_generic_context(llm)
    ELSE IF llm.kind = "raises" THEN ContextRaise("SupplierError")
    ELSE ContextReturn(SetContextType(_parse_llm_response(llm, "direct_reviews"),
                                      "direct_reviews"))

\* ProductContextAgent._generate_from_similar_products
_generate_from_similar_products(llm) ==
    IF llm.kind = "raises" THEN ContextRaise("SupplierError")
    ELSE ContextReturn(SetContextType(_parse_llm_response(llm, "similar_products"),
                                      "similar_products"))

\* ProductContextAgent._generate_from_similar_or_generic; form_answer is
\* form_data.get("hasSimilarProductsReviewed")
_generate_from_similar_or_generic(similar_found, form_answer, llm) ==
    IF similar_found /\ form_answer = "yes"
    THEN _generate_from_similar_products(llm)
    ELSE _generate_generic_context(llm)

\* ProductContextAgent.generate_context
ProductContextAgent_generate_context(c) ==
    IF ~c.product_exists THEN ContextRaise("Product not found")
    ELSE IF c.has_reviews THEN _generate_from_direct_reviews(c.reviews_found, c.llm)
    ELSE _generate_from_similar_or_generic(c.similar_found, c.form_answer, c.llm)

\* CustomerContextAgent: the four generators differ only in their type
_generate_customer_context(branch_context_type, llm) ==
    IF llm.kind = "raises" THEN ContextRaise("SupplierError")
    ELSE ContextReturn(SetContextType(
             _parse_llm_response(llm, branch_context_type), branch_context_type))

_generate_from_review_history(llm) ==
    _generate_customer_context("review_history", llm)

_generate_from_transactions_only(llm) ==
    _generate_customer_context("purchase_history", llm)

_generate_from_demographics(llm) == _generate_customer_context("demographic", llm)

_generate_from_persona_only(llm) == _generate_customer_context("demographic", llm)

\* CustomerContextAgent._generate_from_purchase_history; reviewed_similar:
\* some review of the user is for an item among the similar purchases
_generate_from_purchase_history(reviewed_similar, llm) ==
    IF reviewed_similar THEN _generate_from_review_history(llm)
    ELSE _generate_from_transactions_only(llm)

\* CustomerContextAgent.generate_context: the user is looked up first, the
\* product only when the user exists
CustomerContextAgent_generate_context(c) ==
    IF ~c.user_exists THEN _generate_from_persona_only(c.llm)
    ELSE IF ~c.product_exists THEN ContextRaise("Product not found")
    ELSE IF c.has_purchased_similar
    THEN _generate_from_purchase_history(c.reviewed_similar, c.llm)
    ELSE _generate_from_demographics(c.llm)

(***************************************************************************)
(* FastAPI handlers (src/backend/main.py).  A handler outcome is the row   *)
(* and the reviews table it leaves, and the response it sends.             *)
(***************************************************************************)
Response(op, arg, value, exc, http, status, ret) ==
    [op |-> op, arg |-> arg, value |-> value, exc |-> exc, http |-> http,
     status |-> status, agent_status |-> ret.status,
     question |-> ret.question.question_text,
     question_number |-> ret.question_number,
     total_questions |-> ret.total_questions,
     review_options |-> ret.review_options]

NoCall == Response("none", 0, NoneStr, "none", 0, NoneStr, NoRet)

\* POST /api/survey/start
start_survey_handler(r) ==
    IF r.exc # "none"
    THEN Response("start", 0, NoneStr, r.exc, 500, NoneStr, NoRet)
    ELSE Response("start", 0, NoneStr, "none", 200, NoneStr, r.ret)

\* POST /api/survey/answer: a result without status "survey_completed" is
\* read as a next question; result["question"] raises KeyError when the
\* agent returned the completion dictionary
submit_answer_handler(value, r) ==
    IF r.exc # "none"
    THEN Response("answer", 0, value, r.exc, 500, NoneStr, NoRet)
    ELSE IF r.ret.status = "survey_completed"
    THEN Response("answer", 0, value, "none", 200, "survey_completed", r.ret)
    ELSE IF r.ret.question = NoQuestion
    THEN Response("answer", 0, value, "none", 500, NoneStr, r.ret)
    ELSE Response("answer", 0, value, "none", 200, "continue", r.ret)

\* POST /api/survey/skip: SurveyAndReviewAgent has no skip_question, the
\* attribute lookup raises AttributeError, which is not a ValueError
skip_question_handler ==
    Response("skip", 0, NoneStr, "AttributeError", 500, NoneStr, NoRet)

\* POST /api/survey/edit
edit_answer_handler(question_number, value, r) ==
    IF r.exc # "none"
    THEN Response("edit", question_number, value, r.exc, 500, NoneStr, NoRet)
    ELSE IF r.ret.status = "completed"
    THEN Response("edit", question_number, value, "none", 200, "completed", r.ret)
    ELSE Response("edit", question_number, value, "none", 200, "continue", r.ret)

\* faulty variant of current_state_with_reviews: the stored state starts a
\* fresh ledger
current_state_with_reviews_resetting(current_state, generated) ==
    [current_state EXCEPT !.generated_reviews = SomeReviews(generated),
                          !.answers = <<>>,
                          !.current_question_index = 0]

\* {**current_state, "generated_reviews": [r.dict() for r in ...reviews]}
current_state_with_reviews(current_state, generated) ==
    [current_state EXCEPT !.generated_reviews = SomeReviews(generated)]

\* POST /api/reviews/generate
generate_reviews_handler(session, row, outcome) ==
    LET session_context == session.session_context
        current_state == IF HasState(session) THEN session_context.current_state
                         ELSE EmptyState
        err(e, http) ==
            [row |-> row,
             response |-> Response("generate_review", 0, NoneStr, e, http,
                                   NoneStr, NoRet)]
    IN IF ~session.exists THEN err("Session not found", 404)
       ELSE IF ~HasState(session) THEN err("Product not found", 404)
       ELSE IF outcome.exc # "none" THEN err(outcome.exc, 500)
       ELSE LET stored == current_state_with_reviews(current_state,
                                                      outcome.reviews)
            IN [row |-> update_survey_session(row,
                            current_state.conversation_history,
                            "reviews_generated",
                            [session_context EXCEPT
                                !.keys = @ \cup {"current_state"},
                                !.current_state = stored]),
                response |-> Response("generate_review", 0, NoneStr, "none", 200,
                                      "reviews_generated",
                                      [NoRet EXCEPT !.review_options =
                                          SomeReviews(outcome.reviews)])]

\* the reviews row save_generated_review inserts
ReviewRow(review_text, rating, title) ==
    [review_text |-> review_text, review_stars |-> rating, review_title |-> title]

\* generated_reviews[selected_review_index], Python indexing: a negative
\* index counts from the end of the list
PyIndex(list, i) == IF i >= 0 THEN list[i + 1] ELSE list[Len(list) + i + 1]

\* POST /api/survey/review
submit_review_handler(session, row, table, selected_review_index) ==
    LET session_context == session.session_context
        current_state == IF HasState(session) THEN session_context.current_state
                         ELSE EmptyState
        generated_reviews == current_state.generated_reviews.items
        err(e, http) ==
            [row |-> row, reviews |-> table,
             response |-> Response("select_review", selected_review_index,
                                   NoneStr, e, http, NoneStr, NoRet)]
    IN IF ~session.exists THEN err("Session not found", 404)
       ELSE IF generated_reviews = <<>>
               \/ selected_review_index >= Len(generated_reviews)
       THEN err("Invalid review index", 400)
       ELSE IF selected_review_index < -Len(generated_reviews)
       THEN err("IndexError", 500)
       ELSE LET selected_review == PyIndex(generated_reviews, selected_review_index)
            IN [row |-> update_survey_session(row,
                            current_state.conversation_history, "completed",
                            [session_context EXCEPT
                                !.keys = @ \cup {"review_id", "completed"},
                                !.review_id = Len(table) + 1,
                                !.completed = TRUE]),
                reviews |-> Append(table,
                                ReviewRow(selected_review.review_text,
                                          selected_review.review_stars,
                                          selected_review.tone)),
                response |-> Response("select_review", selected_review_index,
                                      NoneStr, "none", 200, "review_saved",
                                      [NoRet EXCEPT !.review_options =
                                          SomeReviews(<<selected_review>>)])]

(***************************************************************************)
(* Inputs of the operations                                                *)
(***************************************************************************)
\* number of questions whose text repeats an earlier one
Repeats(questions) ==
    Len(questions) - Cardinality({questions[i].question_text : i \in DOMAIN questions})

\* batches the question supplier may return on top of the existing list,
\* for the shapes an environment allows
QuestionOutcomes(existing, shapes) ==
    {SupplierFailure} \cup
    {SupplierReturn(RawBatch(existing, shape)) : shape \in
        {sh \in shapes :
            /\ Len(existing) + CountSurvivors(sh, Len(sh)) <= MaxQuestions
            /\ Repeats(existing \o ValidQuestions(RawBatch(existing, sh))) <= MaxDup}}

\* environments of the question supplier: any mix of fresh and unusable
\* questions; the same with repeated texts; always the full fresh batch
AnyShapes(n) == Shapes(n, {"ok", "one_option", "no_options"})

DupShapes(n) == Shapes(n, QuestionKinds)

FullShapes(n) == {[i \in 1..n |-> "ok"]}

\* what the survey agent's review chain may return
ReviewOutcomes ==
    {SupplierFailure} \cup {SupplierReturn(ReviewBatch(n)) : n \in 0..MaxReviewOptions}

\* what agent 4 may return to the generate handler
Agent4Outcomes ==
    {[exc |-> "SupplierError", reviews |-> <<>>, sentiment_band |-> NoneStr]} \cup
    {generate_reviews("good", n) : n \in 0..3}

AnswerInputs == {StrAnswer("a")}

EditValues == {"X"}

Edited(answers) == Cardinality({i \in DOMAIN answers : answers[i].answer \in EditValues})

ReviewIndexes == (0 - 3)..3

\* an in-flight submit_answer: the row it read, and whether the row in the
\* database has been replaced since
Idle == [busy |-> FALSE, stale |-> FALSE, row |-> NoSession]

\* what a finished submit_answer returned: its exception, the number of
\* answers in the row it had read, whether that row was stale when it wrote
NoReturn ==
    [done |-> FALSE, exc |-> "none", base |-> 0, stale |-> FALSE,
     question_number |-> 0]

(***************************************************************************)
(* State machine                                                           *)
(***************************************************************************)
Init ==
    /\ survey_sessions = NoSession
    /\ reviews = <<>>
    /\ result = NoCall
    /\ loaded = [c \in Clients |-> Idle]
    /\ returned = [c \in Clients |-> NoReturn]

StoredState == survey_sessions.session_context.current_state

\* start: one session is followed, so start runs while no row exists
Start(shapes) ==
    /\ ~survey_sessions.exists
    /\ \E contexts_ok \in BOOLEAN :
       \E initial \in QuestionOutcomes(<<>>, shapes) :
          LET r == start_survey(contexts_ok, initial)
          IN /\ survey_sessions' = r.row
             /\ result' = start_survey_handler(r)
    /\ UNCHANGED <<reviews, loaded, returned>>

\* the route submit_answer takes on a row ("none" when it raises before
\* routing); the suppliers are only called on their routes
RouteOf(session, answer) ==
    IF ~session.exists \/ ~HasState(session) THEN "none"
    ELSE LET current_state == session.session_context.current_state
         IN IF current_state.current_question_index >= Len(current_state.all_questions)
            THEN "none"
            ELSE _route_after_answer(_process_answer(current_state, answer))

NotCalled == {SupplierFailure}

FollowupOutcomes(session, answer, shapes) ==
    IF RouteOf(session, answer) = "generate_followup"
    THEN QuestionOutcomes(session.session_context.current_state.all_questions,
                          shapes)
    ELSE NotCalled

CompletionOutcomes(session, answer) ==
    IF RouteOf(session, answer) = "complete_survey" THEN ReviewOutcomes ELSE NotCalled

\* answer: the whole load-compute-store cycle without interleaving
SubmitAnswer(shapes) ==
    /\ \E answer \in AnswerInputs :
       \E followup \in FollowupOutcomes(survey_sessions, answer, shapes) :
       \E review \in CompletionOutcomes(survey_sessions, answer) :
          LET r == submit_answer(survey_sessions, survey_sessions, answer,
                                 followup, review)
          IN /\ survey_sessions' = r.row
             /\ result' = submit_answer_handler(answer_text(answer), r)
    /\ UNCHANGED <<reviews, loaded, returned>>

SkipQuestion ==
    /\ result' = skip_question_handler
    /\ UNCHANGED <<survey_sessions, reviews, loaded, returned>>

EditAnswer(values) ==
    /\ \E question_number \in (0 - 1)..(MaxQuestions + 1) :
       \E value \in values :
          LET r == edit_answer(survey_sessions, survey_sessions,
                               question_number, value)
          IN /\ r.exc = "none" =>
                    Edited(r.row.session_context.current_state.answers) <= MaxEdits
             /\ survey_sessions' = r.row
             /\ result' = edit_answer_handler(question_number, value, r)
    /\ UNCHANGED <<reviews, loaded, returned>>

\* edit of the most recent answer, the edit a client makes before it goes on
EditLastAnswer(values) ==
    /\ \E value \in values :
          LET question_number == Len(StoredState.answers)
              r == edit_answer(survey_sessions, survey_sessions,
                               question_number, value)
          IN /\ survey_sessions' = r.row
             /\ result' = edit_answer_handler(question_number, value, r)
    /\ UNCHANGED <<reviews, loaded, returned>>

\* generate_review / regenerate (regenerate_reviews calls generate_reviews)
GenerateReviews ==
    /\ \E outcome \in Agent4Outcomes :
          LET h == generate_reviews_handler(survey_sessions, survey_sessions, outcome)
          IN /\ survey_sessions' = h.row
             /\ result' = h.response
    /\ UNCHANGED <<reviews, loaded, returned>>

\* select_review
SubmitReview ==
    /\ Len(reviews) < MaxSavedReviews
    /\ \E selected_review_index \in ReviewIndexes :
          LET h == submit_review_handler(survey_sessions, survey_sessions, reviews,
                                         selected_review_index)
          IN /\ survey_sessions' = h.row
             /\ reviews' = h.reviews
             /\ result' = h.response
    /\ UNCHANGED <<loaded, returned>>

\* first half of a submit_answer of client c: db.get_survey_session
LoadAnswer(c) ==
    /\ survey_sessions.exists
    /\ ~loaded[c].busy
    /\ Len(StoredState.answers) <= RaceDepth
    /\ loaded' = [loaded EXCEPT ![c] = [busy |-> TRUE, stale |-> FALSE,
                                        row |-> survey_sessions]]
    /\ returned' = [returned EXCEPT ![c] = NoReturn]
    /\ UNCHANGED <<survey_sessions, reviews, result>>

\* second half: the rest of submit_answer, computed from the row read
\* earlier and written over whatever row the database holds now
StoreAnswer(c, shapes) ==
    /\ loaded[c].busy
    /\ \E answer \in AnswerInputs :
       \E followup \in FollowupOutcomes(loaded[c].row, answer, shapes) :
       \E review \in CompletionOutcomes(loaded[c].row, answer) :
          LET r == submit_answer(loaded[c].row, survey_sessions, answer,
                                 followup, review)
          IN /\ survey_sessions' = r.row
             /\ result' = submit_answer_handler(answer_text(answer), r)
             /\ returned' = [returned EXCEPT ![c] =
                    [done |-> TRUE, exc |-> r.exc,
                     base |-> Len(loaded[c].row.session_context.current_state.answers),
                     stale |-> loaded[c].stale,
                     question_number |-> r.ret.question_number]]
             /\ loaded' = [d \in Clients |->
                    IF d = c THEN Idle
                    ELSE IF loaded[d].busy /\ r.row # survey_sessions
                         THEN [loaded[d] EXCEPT !.stale = TRUE]
                         ELSE loaded[d]]
    /\ UNCHANGED reviews

\* the multi-select answers a client sends: two options of the question
MultiSelectInputs == {ListAnswer(<<"o1", "o2">>)}

\* answer with a list of options
SubmitMultiSelect(shapes) ==
    /\ \E answer \in MultiSelectInputs :
       \E followup \in FollowupOutcomes(survey_sessions, answer, shapes) :
       \E review \in CompletionOutcomes(survey_sessions, answer) :
          LET r == submit_answer(survey_sessions, survey_sessions, answer,
                                 followup, review)
          IN /\ survey_sessions' = r.row
             /\ result' = submit_answer_handler(answer_text(answer), r)
    /\ UNCHANGED <<reviews, loaded, returned>>

\* the outcomes of a supplier that always returns
Succeeding(outcomes) == outcomes \ {SupplierFailure}

\* start with a context fetch and a question supplier that return
StartSucceeding(shapes) ==
    /\ ~survey_sessions.exists
    /\ \E initial \in Succeeding(QuestionOutcomes(<<>>, shapes)) :
          LET r == start_survey(TRUE, initial)
          IN /\ survey_sessions' = r.row
             /\ result' = start_survey_handler(r)
    /\ UNCHANGED <<reviews, loaded, returned>>

\* answer with suppliers that return whenever they are called
SubmitAnswerSucceeding(shapes) ==
    /\ \E answer \in AnswerInputs :
       \E followup \in
           (IF RouteOf(survey_sessions, answer) = "generate_followup"
            THEN Succeeding(FollowupOutcomes(survey_sessions, answer, shapes))
            ELSE NotCalled) :
       \E review \in
           (IF RouteOf(survey_sessions, answer) = "complete_survey"
            THEN Succeeding(ReviewOutcomes) ELSE NotCalled) :
          LET r == submit_answer(survey_sessions, survey_sessions, answer,
                                 followup, review)
          IN /\ survey_sessions' = r.row
             /\ result' = submit_answer_handler(answer_text(answer), r)
    /\ UNCHANGED <<reviews, loaded, returned>>

\* an in-flight review call (generate_review or select_review) of client c:
\* the handler it runs and the row its db.get_survey_session returned
InFlight(op, row) == [busy |-> TRUE, stale |-> FALSE, row |-> row, op |-> op]

\* first half of generate_reviews or submit_review: db.get_survey_session
LoadReview(c, op) ==
    /\ survey_sessions.exists
    /\ \A d \in Clients : ~loaded[d].busy
    /\ Len(StoredState.answers) <= RaceDepth
    /\ loaded' = [loaded EXCEPT ![c] = InFlight(op, survey_sessions)]
    /\ UNCHANGED <<survey_sessions, reviews, result, returned>>

\* second half of generate_reviews: agent 4 has answered for the ledger read
\* earlier, and update_survey_session writes over the row the database holds
StoreGenerate(c) ==
    /\ loaded[c].busy /\ loaded[c].op = "generate_review"
    /\ \E outcome \in Agent4Outcomes :
          LET h == generate_reviews_handler(loaded[c].row, survey_sessions, outcome)
          IN /\ survey_sessions' = h.row
             /\ result' = h.response
    /\ loaded' = [loaded EXCEPT ![c] = Idle]
    /\ UNCHANGED <<reviews, returned>>

\* second half of submit_review, computed from the row read earlier
StoreSelect(c) ==
    /\ loaded[c].busy /\ loaded[c].op = "select_review"
    /\ Len(reviews) < MaxSavedReviews
    /\ \E selected_review_index \in ReviewIndexes :
          LET h == submit_review_handler(loaded[c].row, survey_sessions, reviews,
                                         selected_review_index)
          IN /\ survey_sessions' = h.row
             /\ reviews' = h.reviews
             /\ result' = h.response
    /\ loaded' = [loaded EXCEPT ![c] = Idle]
    /\ UNCHANGED returned

\* submit_answer of the other client, run as a whole while the review call
\* is between its load and its store
AnswerMeanwhile ==
    /\ Len(StoredState.answers) <= RaceDepth
    /\ SubmitAnswer(FullShapes(MaxBatch))

(***************************************************************************)
(* The stateless functions on their own: a call is drawn in the initial    *)
(* state and the one step applies the function to it.  result holds the    *)
(* call, then the call with its outcome.                                   *)
(***************************************************************************)
UnitCall(fn, input) == [op |-> "call", fn |-> fn, input |-> input]

UnitResult(call, out) == [op |-> call.fn, fn |-> call.fn, input |-> call.input,
                           out |-> out]

\* n fresh questions with enough options
Questions(n) == RawBatch(<<>>, [i \in 1..n |-> "ok"])

\* snapshots given to the routing: any counter up to MaxTurns, any cursor
\* within a list of up to MaxInitial questions
RoutingStates ==
    UNION {{[EmptyState EXCEPT !.all_questions = Questions(n),
                               !.current_question_index = c,
                               !.total_questions_asked = t]
            : c \in 0..n, t \in 0..MaxTurns} : n \in 0..MaxInitial}

\* the follow-up node with a model that returns two fresh questions
FollowupCalls ==
    {[state |-> st,
      questions |-> RawBatch(st.all_questions, <<"ok", "ok">>)]
     : st \in RoutingStates}

SentimentBands == {"good", "okay", "bad", "mixed"}

\* star ratings the model may write, inside and outside 1..5
ModelStars == {1, 6}

ModelReviewLists ==
    UNION {{[i \in 1..k |-> ModelReviewWith(i, stars[i])]
            : stars \in [1..k -> ModelStars]} : k \in 0..MaxModelReviews}

ReviewGenCalls ==
    [sentiment_band : SentimentBands, model_reviews : ModelReviewLists]

ContextTypes ==
    {"generic", "direct_reviews", "similar_products",
     "demographic", "review_history", "purchase_history"}

LlmOutcomes == {LlmRaises, LlmUnparseable} \cup {LlmParsed(t) : t \in ContextTypes}

ProductContextCalls ==
    [product_exists : BOOLEAN, has_reviews : BOOLEAN, reviews_found : BOOLEAN,
     similar_found : BOOLEAN, form_answer : {"yes", "no"}, llm : LlmOutcomes]

CustomerContextCalls ==
    [user_exists : BOOLEAN, product_exists : BOOLEAN,
     has_purchased_similar : BOOLEAN, reviewed_similar : BOOLEAN,
     llm : LlmOutcomes]

UnitCalls ==
    {UnitCall("_route_after_answer", st) : st \in RoutingStates}
    \cup {UnitCall("_generate_followup_questions", c) : c \in FollowupCalls}
    \cup {UnitCall("generate_review_options", c) : c \in ReviewGenCalls}
    \cup {UnitCall("ProductContextAgent.generate_context", c)
          : c \in ProductContextCalls}
    \cup {UnitCall("CustomerContextAgent.generate_context", c)
          : c \in CustomerContextCalls}

InitUnits ==
    /\ survey_sessions = NoSession
    /\ reviews = <<>>
    /\ result \in UnitCalls
    /\ loaded = [c \in Clients |-> Idle]
    /\ returned = [c \in Clients |-> NoReturn]

Pending(fn) == result.op = "call" /\ result.fn = fn

RouteAfterAnswer ==
    /\ Pending("_route_after_answer")
    /\ result' = UnitResult(result, _route_after_answer(result.input))
    /\ UNCHANGED <<survey_sessions, reviews, loaded, returned>>

GenerateFollowup ==
    /\ Pending("_generate_followup_questions")
    /\ result' = UnitResult(result,
                     _generate_followup_questions(result.input.state,
                                                  result.input.questions))
    /\ UNCHANGED <<survey_sessions, reviews, loaded, returned>>

ReviewGen ==
    /\ Pending("generate_review_options")
    /\ result' = UnitResult(result,
                     generate_review_options(result.input.sentiment_band,
                                             result.input.model_reviews))
    /\ UNCHANGED <<survey_sessions, reviews, loaded, returned>>

ProductContext ==
    /\ Pending("ProductContextAgent.generate_context")
    /\ result' = UnitResult(result, ProductContextAgent_generate_context(result.input))
    /\ UNCHANGED <<survey_sessions, reviews, loaded, returned>>

CustomerContext ==
    /\ Pending("CustomerContextAgent.generate_context")
    /\ result' = UnitResult(result, CustomerContextAgent_generate_context(result.input))
    /\ UNCHANGED <<survey_sessions, reviews, loaded, returned>>

(***************************************************************************)
(* Specifications                                                          *)
(***************************************************************************)
\* the stateless functions, each applied once to a drawn call
NextUnits ==
    \/ RouteAfterAnswer
    \/ GenerateFollowup
    \/ ReviewGen
    \/ ProductContext
    \/ CustomerContext

SpecUnits == InitUnits /\ [][NextUnits]_vars

\* the survey operations against a supplier that returns any mix of fresh
\* and unusable questions
Next ==
    \/ Start(AnyShapes(MaxInitial))
    \/ SubmitAnswer(AnyShapes(MaxBatch))
    \/ SkipQuestion
    \/ EditAnswer(EditValues)

Spec == Init /\ [][Next]_vars

\* the same operations against a supplier that may repeat a question text
NextDup ==
    \/ Start(DupShapes(MaxInitial))
    \/ SubmitAnswer(DupShapes(MaxBatch))
    \/ EditAnswer({"a"})

SpecDup == Init /\ [][NextDup]_vars

\* the review operations on top of a survey whose supplier always returns
\* the full batch of fresh questions and whose client edits only its most
\* recent answer
NextReviews ==
    \/ Start(FullShapes(MaxInitial))
    \/ SubmitAnswer(FullShapes(MaxBatch))
    \/ EditLastAnswer({"a"})
    \/ GenerateReviews
    \/ SubmitReview

SpecReviews == Init /\ [][NextReviews]_vars

\* two clients whose submit_answer calls interleave between load and store
NextRace ==
    \/ Start(AnyShapes(MaxInitial))
    \/ \E c \in Clients : LoadAnswer(c)
    \/ \E c \in Clients : StoreAnswer(c, AnyShapes(MaxBatch))

SpecRace == Init /\ [][NextRace]_vars

\* a review call of one client split into load and store, with answers and
\* edits of another client in between
NextReviewRace ==
    \/ Start(FullShapes(MaxInitial))
    \/ AnswerMeanwhile
    \/ EditLastAnswer(EditValues)
    \/ \E c \in Clients : LoadReview(c, "generate_review")
    \/ \E c \in Clients : LoadReview(c, "select_review")
    \/ \E c \in Clients : StoreGenerate(c)
    \/ \E c \in Clients : StoreSelect(c)

SpecReviewRace == Init /\ [][NextReviewRace]_vars

\* a client that keeps answering the question it was given, without edits,
\* against suppliers that always return a batch, possibly an empty one; the
\* client goes on answering for as long as it can
NextAnswering ==
    \/ StartSucceeding(AnyShapes(MaxInitial))
    \/ SubmitAnswerSucceeding(AnyShapes(MaxBatch))

SpecAnswering ==
    /\ Init
    /\ [][NextAnswering]_vars
    /\ WF_vars(StartSucceeding(AnyShapes(MaxInitial)))
    /\ WF_vars(SubmitAnswerSucceeding(AnyShapes(MaxBatch)))

\* the survey operations of a client that answers with lists of options, the
\* supplier always returning the full batch of fresh questions
NextMulti ==
    \/ Start(FullShapes(MaxInitial))
    \/ SubmitMultiSelect(FullShapes(MaxBatch))
    \/ EditAnswer(EditValues)

SpecMulti == Init /\ [][NextMulti]_vars

(***************************************************************************)
(* Properties                                                              *)
(***************************************************************************)
\* C1: of two submit_answer calls that both loaded the same snapshot before
\* either stored, exactly one is accepted: the database never holds a ledger
\* for which both calls returned success although the later store came from
\* a stale row and only one of the two answers was kept.
C1_OneOfTwoConcurrentAnswersAccepted ==
    \A c, d \in Clients :
        ~(/\ c # d
          /\ returned[c].done /\ returned[c].exc = "none"
          /\ returned[d].done /\ returned[d].exc = "none"
          /\ returned[d].stale
          /\ returned[c].base = returned[d].base
          /\ Len(StoredState.answers) = returned[d].base + 1)

\* C2: edit_answer(n, v) with 1 <= n <= len(answers) stores the first n-1
\* answers unchanged followed by one new record for question n with value v,
\* cursor n, total-turns counter n, an active (not completed) session and no
\* generated reviews.
C2_EditTruncates ==
    [][(/\ result'.op = "edit"
        /\ survey_sessions.exists
        /\ 1 <= result'.arg
        /\ result'.arg <= Len(StoredState.answers))
       => (/\ result'.exc = "none"
           /\ StoredState'.answers =
                  Append(SubSeq(StoredState.answers, 1, result'.arg - 1),
                         [question_index |-> result'.arg - 1,
                          question |->
                              StoredState.all_questions[result'.arg].question_text,
                          answer |-> result'.value])
           /\ StoredState'.current_question_index = result'.arg
           /\ StoredState'.total_questions_asked = result'.arg
           /\ ~survey_sessions'.is_completed
           /\ StoredState'.generated_reviews = NoReviews
           /\ StoredState'.all_questions = StoredState.all_questions)]_vars

\* C2 witness: an edit of question 2 was stored, leaving two answers of which
\* the second holds the new value and the first its old one
C2_Witness ==
    /\ result.op = "edit" /\ result.exc = "none" /\ result.arg = 2
    /\ Len(StoredState.answers) = 2
    /\ StoredState.answers[2].answer = result.value
    /\ StoredState.answers[1].answer # result.value
    /\ Len(StoredState.all_questions) > 2

\* C3: edit_answer with question_number < 1 or > len(answers) fails with the
\* invalid-question-number error and leaves the stored row as it was.
C3_InvalidEditRejected ==
    [][(/\ result'.op = "edit"
        /\ survey_sessions.exists
        /\ (result'.arg < 1 \/ result'.arg > Len(StoredState.answers)))
       => (/\ result'.exc = "Invalid question number"
           /\ result'.http # 200
           /\ survey_sessions' = survey_sessions)]_vars

\* C3 witness: an edit one past the last answered question was refused on a
\* session that has answers
C3_Witness ==
    /\ result.op = "edit" /\ result.exc = "Invalid question number"
    /\ Len(StoredState.answers) >= 2
    /\ result.arg = Len(StoredState.answers) + 1
    /\ Len(StoredState.all_questions) >= result.arg

\* C4: after an edit_answer that leaves the cursor at the end of the
\* question list, the edit does not report the survey as completed while the
\* stored session is still active, and the next answer does not fail with an
\* out-of-range question index.
C4_EditAtEndResumes ==
    /\ [](result.op = "edit" /\ result.exc = "none"
          /\ StoredState.current_question_index >= Len(StoredState.all_questions)
          => ~(result.status = "completed" /\ ~survey_sessions.is_completed))
    /\ [][(/\ result.op = "edit" /\ result.exc = "none"
           /\ StoredState.current_question_index >= Len(StoredState.all_questions)
           /\ result'.op = "answer")
          => result'.exc # "IndexError"]_vars

\* C5: once the session is stored as completed with generated reviews, an
\* answer or a skip is rejected and leaves the stored row unchanged; an
\* accepted edit returns the session to the active phase.
C5_CompletedAcceptsOnlyEdit ==
    [][(/\ survey_sessions.is_completed
        /\ ~StoredState.generated_reviews.is_none)
       => (/\ result'.op \in {"answer", "skip"}
              => (result'.http # 200 /\ survey_sessions' = survey_sessions)
           /\ (result'.op = "edit" /\ result'.exc = "none")
              => ~survey_sessions'.is_completed)]_vars

\* C6: the number of resolved questions (recorded answers; no skip is ever
\* recorded) never exceeds MAX_SURVEY_QUESTIONS.
C6_ResolvedWithinMaximum ==
    Len(StoredState.answers) <= max_survey_questions

\* C7: when an answer triggers follow-up generation and the supplier returns
\* without any usable question, the call succeeds and stores the session as
\* completed; it does not raise and does not store an active session whose
\* cursor equals the length of the question list.
C7_EmptyFollowupCompletes ==
    [][(/\ result'.op = "answer"
        /\ \E answer \in AnswerInputs :
               RouteOf(survey_sessions, answer) = "generate_followup"
        /\ result'.exc # "SupplierError"
        /\ StoredState'.all_questions = StoredState.all_questions)
       => (/\ result'.exc = "none"
           /\ survey_sessions'.is_completed)]_vars

\* C8: no two questions of the stored question list have the same text.
C8_NoRepeatedQuestionText ==
    Repeats(StoredState.all_questions) = 0

\* C9: an answer, edit, generate_review or select_review call that returns an
\* error leaves the stored session row identical to the row before the call.
C9_FailureLeavesRowUnchanged ==
    [][(/\ result'.op \in {"answer", "edit", "generate_review", "select_review"}
        /\ result'.http # 200)
       => survey_sessions' = survey_sessions]_vars

\* C10: when the context fetch or the initial question generation fails
\* during start_survey, no session row of that call exists afterwards.
C10_FailedStartLeavesNoSession ==
    [][(result'.op = "start" /\ result'.exc # "none")
       => ~survey_sessions'.exists]_vars

\* C11: a successful start_survey stores an active session with cursor 0, no
\* answers, no generated reviews and at least one question, and returns
\* question_number 1, the first question of the list and total_questions
\* equal to the length of the list.
C11_StartSnapshot ==
    [][(result'.op = "start" /\ result'.exc = "none")
       => (/\ survey_sessions'.exists
           /\ HasState(survey_sessions')
           /\ ~survey_sessions'.is_completed
           /\ StoredState'.current_question_index = 0
           /\ StoredState'.answers = <<>>
           /\ StoredState'.generated_reviews = NoReviews
           /\ Len(StoredState'.all_questions) >= 1
           /\ result'.http = 200
           /\ result'.question_number = 1
           /\ result'.question = StoredState'.all_questions[1].question_text
           /\ result'.total_questions = Len(StoredState'.all_questions))]_vars

\* C11 witness: a start has just succeeded with a list of two questions, the
\* model having returned a third one without enough options
C11_Witness ==
    /\ result.op = "start" /\ result.exc = "none"
    /\ Len(StoredState.all_questions) = 2
    /\ result.total_questions = 2
    /\ result.question = text(1)

\* C12: when a successful start or answer is followed by a successful answer
\* that returns a question, the returned question_number is one more than the
\* previous one, the returned question is the one at that position of the
\* question list, and its text differs from the text of every question at an
\* earlier position (the questions returned before it).
C12_QuestionNumbersIncrease ==
    [][(/\ result.op \in {"start", "answer"} /\ result.http = 200
        /\ result'.op = "answer" /\ result'.http = 200)
       => (/\ result'.question_number = result.question_number + 1
           /\ result'.question =
                  StoredState'.all_questions[result'.question_number].question_text
           /\ \A i \in 1..(result'.question_number - 1) :
                  StoredState'.all_questions[i].question_text # result'.question)]_vars

\* C13: in every stored snapshot the cursor equals the number of answer
\* records, and the record at position i carries question_index i and the
\* text of question i of the list, so every index below the cursor is
\* resolved by exactly one record and none at or above it (no skip is ever
\* recorded: the ledger has no skipped set).
C13_CursorCountsResolved ==
    /\ StoredState.current_question_index = Len(StoredState.answers)
    /\ \A i \in DOMAIN StoredState.answers :
          /\ StoredState.answers[i].question_index = i - 1
          /\ i <= Len(StoredState.all_questions)
          /\ StoredState.answers[i].question =
                 StoredState.all_questions[i].question_text

\* C13 witness: an answer was stored after an edit, so the ledger holds an
\* edited record followed by an answered one, and a skip has been attempted
C13_Witness ==
    /\ result.op = "skip"
    /\ Len(StoredState.answers) >= 3
    /\ \E i \in DOMAIN StoredState.answers :
          /\ i < Len(StoredState.answers)
          /\ StoredState.answers[i].answer \in EditValues
          /\ StoredState.answers[i + 1].answer \notin EditValues

\* C14: in every stored snapshot the total-turns counter
\* (total_questions_asked) equals the cursor (current_question_index).
C14_TurnsEqualCursor ==
    HasState(survey_sessions)
        => StoredState.total_questions_asked = StoredState.current_question_index

\* C15: in every stored snapshot, after successful and failed calls alike,
\* 0 <= cursor <= len(all_questions).
C15_CursorWithinQuestions ==
    /\ 0 <= StoredState.current_question_index
    /\ StoredState.current_question_index <= Len(StoredState.all_questions)

\* C15 witness: an answer failed after its store, leaving the cursor at the
\* end of a non-empty question list
C15_Witness ==
    /\ result.op = "answer" /\ result.exc = "IndexError"
    /\ Len(StoredState.all_questions) >= 1
    /\ StoredState.current_question_index = Len(StoredState.all_questions)

\* the stored ledger apart from the generated reviews
LedgerOf(row) ==
    [row.session_context.current_state EXCEPT !.generated_reviews = NoReviews]

\* C16: a generate_review (or regenerate) call, however often it is repeated,
\* changes only the generated reviews and the completed mark: answers,
\* cursor, question list, total-turns counter, conversation, form data and
\* the existence of the row are the same after the call as before it.
C16_GenerateKeepsLedger ==
    [][(result'.op = "generate_review")
       => (/\ LedgerOf(survey_sessions') = LedgerOf(survey_sessions)
           /\ survey_sessions'.exists = survey_sessions.exists
           /\ survey_sessions'.session_context.form_data =
                  survey_sessions.session_context.form_data
           /\ reviews' = reviews)]_vars

\* C16 witness: reviews were generated again on a ledger of at least five
\* answers after a selected review had already been saved
C16_Witness ==
    /\ result.op = "generate_review" /\ result.exc = "none"
    /\ Len(StoredState.answers) >= min_survey_questions
    /\ Len(StoredState.generated_reviews.items) = 2
    /\ reviews # <<>>

\* C17: when the review supplier fails, in generate_review or in the answer
\* that completes the survey, the call returns an error and the stored row
\* (ledger, generated reviews, completed mark) is the row before the call.
C17_ReviewSupplierFailureKeepsRow ==
    [][(\/ /\ result'.op = "generate_review"
           /\ result'.exc \in {"SupplierError", "IndexError"}
        \/ /\ result'.op = "answer" /\ result'.exc = "SupplierError"
           /\ \E answer \in AnswerInputs :
                  RouteOf(survey_sessions, answer) = "complete_survey")
       => (/\ result'.http = 500
           /\ survey_sessions' = survey_sessions
           /\ reviews' = reviews)]_vars

\* C17 witness: the answer that completes the survey has just failed in the
\* review supplier and the session is still active without generated reviews
C17_Witness ==
    /\ result.op = "answer" /\ result.exc = "SupplierError"
    /\ \E answer \in AnswerInputs :
           RouteOf(survey_sessions, answer) = "complete_survey"
    /\ ~survey_sessions.is_completed
    /\ StoredState.generated_reviews.is_none

\* C18: no stored snapshot holds an empty list of generated reviews in a
\* session marked completed or just reported as reviews_generated: a supplier
\* result without options is not accepted as a success.
C18_EmptyReviewsRejected ==
    ~(/\ ~StoredState.generated_reviews.is_none
      /\ StoredState.generated_reviews.items = <<>>
      /\ (survey_sessions.is_completed \/ result.status = "reviews_generated"))

\* C19: whenever the stored snapshot holds a non-empty list of generated
\* reviews the session is marked completed (so a session that is not
\* completed holds none).
C19_ReviewsOnlyWhenCompleted ==
    StoredState.generated_reviews.items # <<>> => survey_sessions.is_completed

\* C20: select_review with an index below 0 or at or above the number of
\* generated reviews, or without generated reviews, fails, inserts no review
\* and leaves the session row unchanged; with an index in range it inserts
\* one review whose text is that of generated_reviews[index].
C20_SelectReviewIndexChecked ==
    [][(result'.op = "select_review" /\ survey_sessions.exists)
       => IF /\ 0 <= result'.arg
             /\ result'.arg < Len(StoredState.generated_reviews.items)
          THEN /\ result'.http = 200
               /\ reviews' = Append(reviews, reviews'[Len(reviews')])
               /\ reviews'[Len(reviews')].review_text =
                      StoredState.generated_reviews.items[result'.arg + 1].review_text
          ELSE /\ result'.http # 200
               /\ reviews' = reviews
               /\ survey_sessions' = survey_sessions]_vars

\* C21: a skip on an active session that has a question at its cursor either
\* succeeds or is refused with the user-correctable skip-limit error (HTTP
\* 400, after three consecutive skips) leaving the stored row unchanged; it
\* never ends in an internal error.
C21_SkipLimit ==
    [][(/\ result'.op = "skip"
        /\ survey_sessions.exists /\ HasState(survey_sessions)
        /\ ~survey_sessions.is_completed
        /\ StoredState.current_question_index < Len(StoredState.all_questions))
       => (/\ result'.http \in {200, 400}
           /\ result'.http = 400 => survey_sessions' = survey_sessions)]_vars

\* C22: when the agent's submit_answer returns the completion result, the
\* answer endpoint sends a success response that carries the completion
\* status.
C22_CompletionIsSuccess ==
    [][(result'.op = "answer" /\ result'.exc = "none"
        /\ result'.agent_status = "completed")
       => (/\ result'.http = 200
           /\ result'.status \in {"completed", "survey_completed"})]_vars

\* C23: answer, skip, edit, generate_review and select_review called while
\* no session row exists return NotFound (HTTP 404), not an internal error,
\* and create or change no stored state.
C23_UnknownSessionNotFound ==
    [][(/\ ~survey_sessions.exists
        /\ result'.op \in {"answer", "skip", "edit", "generate_review",
                           "select_review"})
       => (/\ result'.http = 404
           /\ survey_sessions' = survey_sessions
           /\ reviews' = reviews)]_vars

\* C28: a submit_answer that the agent accepts on a session with cursor c
\* appends exactly one record with question_index c and the text of question
\* c, keeps the earlier records, sets the cursor to c + 1 and the total-turns
\* counter to its previous value + 1; with the cursor at the end of the list
\* the call fails and the stored row is unchanged.
C28_AnswerAppendsOneRecord ==
    [][(result'.op = "answer" /\ survey_sessions.exists
        /\ HasState(survey_sessions))
       => IF StoredState.current_question_index < Len(StoredState.all_questions)
          THEN result'.exc = "none"
               => (/\ StoredState'.answers =
                          Append(StoredState.answers,
                                 [question_index |->
                                      StoredState.current_question_index,
                                  question |->
                                      StoredState.all_questions[
                                          StoredState.current_question_index + 1
                                      ].question_text,
                                  answer |-> result'.value])
                   /\ StoredState'.current_question_index =
                          StoredState.current_question_index + 1
                   /\ StoredState'.total_questions_asked =
                          StoredState.total_questions_asked + 1)
          ELSE /\ result'.exc # "none"
               /\ survey_sessions' = survey_sessions]_vars

\* C24: for every band and every list of reviews the model returns, agent 4
\* returns review options whose star ratings are, in order, those fixed for
\* the band (good: 5, 4; okay: 4, 3, 2; any other band: 2, 1) whatever the
\* model wrote, every rating is in 1..5 and the band reported is the
\* analysed one.
C24_StarRatingsOfBand ==
    result.op = "generate_review_options"
    => LET band == result.input.sentiment_band
           fixed == IF band = "good" THEN <<5, 4>>
                    ELSE IF band = "okay" THEN <<4, 3, 2>>
                    ELSE <<2, 1>>
           out == result.out
       IN /\ out.exc = "none"
          /\ Len(out.reviews) <= Len(fixed)
          /\ \A i \in DOMAIN out.reviews :
                /\ out.reviews[i].review_stars = fixed[i]
                /\ out.reviews[i].review_stars \in 1..5
          /\ out.sentiment_band = band

\* C25: agent 4 returns exactly 2 options for the good band, 3 for the okay
\* band and 2 for any other band, whatever number of reviews the model
\* wrote, and does not fail when the model wrote more.
C25_OptionCountOfBand ==
    result.op = "generate_review_options"
    => /\ result.out.exc = "none"
       /\ Len(result.out.reviews) =
              (IF result.input.sentiment_band = "okay" THEN 3 ELSE 2)

\* C26: ProductContextAgent.generate_context raises product-not-found when
\* the product does not exist; otherwise, when the model answers, it returns
\* context_type direct_reviews iff has_reviews and a review is found,
\* similar_products iff not has_reviews, similar products with reviews exist
\* and the form says yes, and generic in every other case, whether or not
\* the model's answer parses and whatever type it names.
C26_ProductContextType ==
    result.op = "ProductContextAgent.generate_context"
    => LET c == result.input
       IN IF ~c.product_exists
          THEN result.out.exc = "Product not found"
          ELSE c.llm.kind # "raises"
               => /\ result.out.exc = "none"
                  /\ result.out.context_type =
                         (IF c.has_reviews
                          THEN (IF c.reviews_found THEN "direct_reviews"
                                ELSE "generic")
                          ELSE IF c.similar_found /\ c.form_answer = "yes"
                               THEN "similar_products"
                               ELSE "generic")

\* C26 witness: the product has reviews, the model answered with a context
\* that calls itself generic, and direct_reviews was returned
C26_Witness ==
    /\ result.op = "ProductContextAgent.generate_context"
    /\ result.input.product_exists /\ result.input.has_reviews
    /\ result.input.reviews_found
    /\ result.input.llm = LlmParsed("generic")
    /\ result.out.context_type = "direct_reviews"

\* C27: CustomerContextAgent.generate_context raises product-not-found
\* whenever the product does not exist; otherwise, when the model answers,
\* it returns demographic for an unknown user and for a known user who has
\* not purchased similar products, review_history when a review of the user
\* is for a similar purchase, and purchase_history when none is.
C27_CustomerContextType ==
    result.op = "CustomerContextAgent.generate_context"
    => LET c == result.input
       IN c.llm.kind # "raises"
          => IF ~c.product_exists
             THEN result.out.exc = "Product not found"
             ELSE /\ result.out.exc = "none"
                  /\ result.out.context_type =
                         (IF ~c.user_exists \/ ~c.has_purchased_similar
                          THEN "demographic"
                          ELSE IF c.reviewed_similar THEN "review_history"
                               ELSE "purchase_history")

\* C29: for every snapshot whose total-turns counter is at or above
\* MAX_SURVEY_QUESTIONS the routing after an answer yields completion,
\* whatever the counter modulo 3 and the cursor are, and the follow-up node
\* called on such a snapshot appends no question.
C29_CapBeforeCadence ==
    /\ (result.op = "_route_after_answer"
        /\ result.input.total_questions_asked >= max_survey_questions)
       => result.out = "complete_survey"
    /\ (result.op = "_generate_followup_questions"
        /\ result.input.state.total_questions_asked >= max_survey_questions)
       => /\ result.out.all_questions = result.input.state.all_questions
          /\ result.out.next_action = "complete_survey"

\* C29 witness: the routing was given a counter of 12, a multiple of 3 above
\* the cap, with unanswered questions left, and chose completion
C29_Witness ==
    /\ result.op = "_route_after_answer"
    /\ result.input.total_questions_asked = 12
    /\ result.input.current_question_index < Len(result.input.all_questions)
    /\ result.out = "complete_survey"

\* C30: after an answer with MIN_SURVEY_QUESTIONS <= total_turns <
\* MAX_SURVEY_QUESTIONS and total_turns mod 3 = 0 the engine requests
\* follow-up generation for min(2, MAX - total_turns) questions and, unless
\* the supplier call itself fails, the session stays active with the cursor
\* on a question of the list; with total_turns below MIN_SURVEY_QUESTIONS
\* and unanswered questions left, no follow-up generation is requested.
C30_FollowupCadence ==
    [][(/\ result'.op = "answer"
        /\ survey_sessions.exists /\ HasState(survey_sessions)
        /\ StoredState.current_question_index < Len(StoredState.all_questions))
       => \A answer \in AnswerInputs :
          LET updated_state == _process_answer(StoredState, answer)
              total_turns == updated_state.total_questions_asked
          IN /\ (/\ min_survey_questions <= total_turns
                 /\ total_turns < max_survey_questions
                 /\ total_turns % 3 = 0)
                => /\ _route_after_answer(updated_state) = "generate_followup"
                   /\ num_followup(updated_state) =
                          (IF max_survey_questions - total_turns < 2
                           THEN max_survey_questions - total_turns ELSE 2)
                   /\ result'.exc # "SupplierError"
                      => /\ ~survey_sessions'.is_completed
                         /\ StoredState'.current_question_index
                                < Len(StoredState'.all_questions)
             /\ (/\ total_turns < min_survey_questions
                 /\ updated_state.current_question_index
                        < Len(updated_state.all_questions))
                => _route_after_answer(updated_state) # "generate_followup"]_vars

\* C31: after an answer that leaves the cursor at the end of the question
\* list with the total-turns counter below MAX_SURVEY_QUESTIONS and off the
\* follow-up cadence, the routing requests follow-up generation, also when
\* the counter is at or above MIN_SURVEY_QUESTIONS; it does not route to
\* completion because the questions ran out.
C31_FollowupWhenQuestionsRunOut ==
    [][(/\ result'.op = "answer"
        /\ survey_sessions.exists /\ HasState(survey_sessions)
        /\ StoredState.current_question_index < Len(StoredState.all_questions))
       => \A answer \in AnswerInputs :
          LET updated_state == _process_answer(StoredState, answer)
              total_turns == updated_state.total_questions_asked
          IN (/\ updated_state.current_question_index
                     = Len(updated_state.all_questions)
              /\ total_turns < max_survey_questions
              /\ ~(total_turns >= min_survey_questions /\ total_turns % 3 = 0))
             => RouteOf(survey_sessions, answer) = "generate_followup"]_vars

\* C32: every question of the stored question list has at least 2 options
\* (a question the initial or follow-up model returned with no option or a
\* single one is not appended), and a start that succeeded stored at least
\* one question.
C32_StoredQuestionsHaveOptions ==
    /\ \A i \in DOMAIN StoredState.all_questions :
          Len(StoredState.all_questions[i].options) >= 2
    /\ (result.op = "start" /\ result.exc = "none")
       => StoredState.all_questions # <<>>
    /\ (result.op = "start" /\ result.exc = "No valid questions generated")
       => ~HasState(survey_sessions)

\* C32 witness: a start whose model returned only questions without enough
\* options has failed and stored no question list
C32_Witness ==
    /\ result.op = "start" /\ result.exc = "No valid questions generated"
    /\ survey_sessions.exists /\ ~HasState(survey_sessions)

\* C33: an answer that triggers follow-up generation appends at most
\* count_requested = min(2, MAX_SURVEY_QUESTIONS - total_turns) questions to
\* the stored question list, whatever number of usable questions the
\* supplier returns, and keeps the questions stored before as a prefix.
C33_FollowupAppendsAtMostRequested ==
    [][(/\ result'.op = "answer"
        /\ \E answer \in AnswerInputs :
               RouteOf(survey_sessions, answer) = "generate_followup")
       => \A answer \in AnswerInputs :
          LET updated_state == _process_answer(StoredState, answer)
              before == Len(StoredState.all_questions)
          IN /\ Len(StoredState'.all_questions) - before
                    <= num_followup(updated_state)
             /\ SubSeq(StoredState'.all_questions, 1, before)
                    = StoredState.all_questions]_vars

\* questions is an initial segment of later
IsPrefix(questions, later) ==
    /\ Len(questions) <= Len(later)
    /\ SubSeq(later, 1, Len(questions)) = questions

\* C34: the stored question list only grows by appending: after every
\* answer, edit, generate_review or select_review, successful or not, the
\* list stored before the call is a prefix of the list stored after it, and
\* an edit leaves the whole list, the questions after the edited position
\* included, as it was.
C34_QuestionsOnlyAppended ==
    [][/\ result'.op \in {"answer", "edit", "generate_review", "select_review"}
          => IsPrefix(StoredState.all_questions, StoredState'.all_questions)
       /\ result'.op = "edit"
          => StoredState'.all_questions = StoredState.all_questions]_vars

\* C34 witness: an edit of the latest answer was stored on a session that had
\* generated reviews, with questions left after the edited one
C34_Witness ==
    /\ result.op = "edit" /\ result.exc = "none"
    /\ Len(StoredState.all_questions) > result.arg + 1
    /\ StoredState.generated_reviews.is_none
    /\ reviews # <<>>

\* C35: a generate_review or select_review that succeeds after an edit or an
\* answer ran between its load and its store does not overwrite that call's
\* result: the stored answers are those stored just before it wrote (no
\* discarded answer comes back, no accepted answer is lost), and the reviews
\* a generate_review stores were computed from the stored answers.
C35_ReviewCallKeepsConcurrentResult ==
    [][\A c \in Clients :
          (loaded[c].busy /\ ~loaded'[c].busy /\ result'.http = 200)
          => /\ StoredState'.answers = StoredState.answers
             /\ result'.op = "generate_review"
                => loaded[c].row.session_context.current_state.answers
                       = StoredState'.answers]_vars

\* a stored active session whose cursor is at the end of its question list:
\* _process_answer raises IndexError on it, in every submit_answer
DeadEnd ==
    /\ survey_sessions.exists /\ HasState(survey_sessions)
    /\ ~survey_sessions.is_completed
    /\ StoredState.current_question_index >= Len(StoredState.all_questions)

\* C36: without edits and with suppliers that always return (finite batches,
\* possibly empty), the session never reaches a stored state on which every
\* further answer fails, and a started session reaches the completion result
\* of submit_answer after finitely many answers.
C36_AnswersReachCompletion ==
    /\ [](~DeadEnd)
    /\ (result.op = "start" /\ result.exc = "none")
           ~> (result.op = "answer" /\ result.agent_status = "completed")

\* the entries of a conversation that are not system messages
Dialogue(conversation_history) ==
    SelectSeq(conversation_history,
              LAMBDA m : m.role \in {"assistant", "user"})

\* conversation holds exactly the (question, answer) pairs of answers
PairsOf(conversation, answers) ==
    /\ Len(conversation) = 2 * Len(answers)
    /\ \A i \in DOMAIN answers :
          /\ conversation[2 * i - 1] =
                 [role |-> "assistant", content |-> answers[i].question]
          /\ conversation[2 * i] =
                 [role |-> "user", content |-> answers[i].answer]

\* C37: in every stored row the assistant and user entries of the
\* conversation history (the one of the row and the one inside the stored
\* state) are exactly the (question text, answer text) pairs of the stored
\* answers, in answer order, so an answer an edit discarded has no entry; a
\* multi-select answer of options o1 and o2 is recorded as "o1, o2".
C37_ConversationMirrorsAnswers ==
    /\ PairsOf(Dialogue(survey_sessions.session_context.conversation_history),
               StoredState.answers)
    /\ PairsOf(Dialogue(StoredState.conversation_history), StoredState.answers)
    /\ \A i \in DOMAIN StoredState.answers :
          StoredState.answers[i].answer \in {"a", "X", "o1, o2"}
    /\ (result.op = "answer" /\ result.exc = "none"
        /\ result.value \notin {"a", "X"})
       => StoredState.answers[Len(StoredState.answers)].answer = "o1, o2"

\* C37 witness: an edit of question 2 has discarded the answers after it
\* (the stored question list is longer than the list first generated, so
\* later questions had been answered), and a multi-select answer was
\* recorded after it
C37_Witness ==
    /\ Len(StoredState.answers) = 3
    /\ StoredState.answers[1].answer = "o1, o2"
    /\ StoredState.answers[2].answer = "X"
    /\ StoredState.answers[3].answer = "o1, o2"
    /\ Len(StoredState.all_questions) > MaxInitial
    /\ result.op = "answer" /\ result.exc = "none"

\* C38: however often select_review is called on a session, with the same
\* index or another one, at most one selected review is stored for it.
C38_AtMostOneSavedReview ==
    Len(reviews) <= 1

\* C39: the review a successful select_review stores carries the text and
\* the star rating of the chosen generated review, an integer in 1..5,
\* whether the stored options came from the answer that completed the survey
\* (key rating) or from generate_review (key review_stars); the stored rating
\* is never absent.
C39_SavedReviewCarriesRating ==
    [][(/\ result'.op = "select_review" /\ result'.http = 200
        /\ result'.arg >= 0)
       => LET chosen == StoredState.generated_reviews.items[result'.arg + 1]
              saved == reviews'[Len(reviews')]
          IN /\ saved.review_text = chosen.review_text
             /\ saved.review_stars \in 1..5
             /\ saved.review_stars =
                    (IF chosen.review_stars # 0 THEN chosen.review_stars
                     ELSE chosen.rating)]_vars

====
